---- MODULE Spec2Model ----
(***************************************************************************)
(* RGC (React Garbage Collector): the component-graph extraction engine.   *)
(*                                                                         *)
(* Two programs share the globals createdComponents / rootComponents /     *)
(* componentsMutex:                                                        *)
(*   - src/src/main.go : the command-line variant.  Phase 1 walks the      *)
(*     repository with one goroutine per directory entry, phase 2 scans    *)
(*     every registered file with one goroutine per component, then the    *)
(*     root list is printed with json.MarshalIndent.                       *)
(*   - src/src/rgc.go + src/unnamed/part_000 : the service variant.  Every *)
(*     POST /garbage request walks the repository sequentially, builds the *)
(*     tree sequentially and classifies the roots.                         *)
(*                                                                         *)
(* The Content Provider (GitHub) is an input: a fixed directory tree whose *)
(* file texts are drawn in Init, and whose calls may fail.                 *)
(***************************************************************************)
EXTENDS Integers, Sequences, FiniteSets, TLC

VARIABLES
    repo,               \* input: file path -> text (what the provider serves)
    createdComponents,  \* global map name -> Component{Name, Path}
    rootComponents,     \* global slice of root nodes
    componentsMutex,    \* holder of the sync.Mutex, or NoHolder
    mainpc,             \* main.go: position of func main
    ctxDone,            \* main.go: the 75 s context has expired
    gpc,                \* main.go phase 1: position of the goroutine of each entry
    wg,                 \* main.go: sync.WaitGroup counter of each fork-join level
    errChan,            \* main.go: buffered error channel of each fork-join level
    componentNodes,     \* main.go phase 2: name -> node (Component, Children, Parent)
    wpc,                \* main.go phase 2: position of the worker of each node
    widx,               \* main.go phase 2: index of the next tag match of each worker
    encStack,           \* main.go PrintResults: the encoder's recursion (node, next field)
    rootIdx,            \* main.go PrintResults: next element of rootComponents to encode
    jsonOut,            \* main.go PrintResults: "none" | "printed" | "error"
    hist,               \* history of main.go: what the provider answered, what ran
    rpc,                \* rgc.go: position of each request
    rwork,              \* rgc.go: entries the walk of each request still has to process
    rtodo,              \* rgc.go: names buildComponentTree of each request still ranges over
    rresult,            \* rgc.go: the ComponentsResult each request returned
    rstart              \* history: the globals and the other requests when a request began

vars == <<repo, createdComponents, rootComponents, componentsMutex, mainpc, ctxDone,
          gpc, wg, errChan, componentNodes, wpc, widx, encStack, rootIdx, jsonOut,
          hist, rpc, rwork, rtodo, rresult, rstart>>

cliVars == <<mainpc, ctxDone, gpc, wg, errChan, componentNodes, wpc, widx,
             encStack, rootIdx, jsonOut, hist>>

svcVars == <<rpc, rwork, rtodo, rresult, rstart>>

----------------------------------------------------------------------------
(* Bounds of the model *)

\* Number of POST /garbage requests the service handles.
MaxRequests == 2

\* encoding/json starts tracking pointers for cycles after 1000 nested
\* pointers; the model scales that depth down.
startDetectingCyclesAfter == 2

----------------------------------------------------------------------------
(* The repository: a fixed tree, paths as sequences of segments.  A file    *)
(* path ends with its base name and its extension.                          *)

Names == {"A", "B", "C"}
NoNode == "nil"
NoHolder == <<"-">>

RootPath == <<>>
LibDir == <<"lib">>
UiDir == <<"lib", "ui">>
FileA == <<"A", ".tsx">>
FileB == <<"lib", "B", ".tsx">>
FileC == <<"lib", "ui", "C", ".ts">>

Dirs == {LibDir, UiDir}
Files == {FileA, FileB, FileC}
Entries == Dirs \cup Files
Levels == {RootPath} \cup Dirs \cup {<<"build">>}
BuildLevel == <<"build">>

DirEntry(p) == [Type |-> "dir", Path |-> p]
FileEntry(p) == [Type |-> "file", Path |-> p]

\* What client.Repositories.GetContents returns for a directory, in order.
Listing(path) ==
    CASE path = RootPath -> << DirEntry(LibDir), FileEntry(FileA) >>
      [] path = LibDir   -> << DirEntry(UiDir), FileEntry(FileB) >>
      [] path = UiDir    -> << FileEntry(FileC) >>
      [] OTHER           -> << >>

\* The directory whose listing holds the entry.
ParentLevel(p) == SubSeq(p, 1, IF p \in Files THEN Len(p) - 2 ELSE Len(p) - 1)

\* An import statement's path: relative or not, and its base name.
RelImport(b) == [relative |-> TRUE, base |-> b, ext |-> ""]
PkgImport(b) == [relative |-> FALSE, base |-> b, ext |-> ""]

\* A file text, by what the regular expressions of the code find in it:
\*   exports: names matched by exportRegex, in order of occurrence
\*   funcs:   names matched by funcRegex (^function Name)
\*   tags:    names matched by childRegex (<Name followed by space, / or >)
\*   imports: paths matched by the import regex of rgc.go
Text(e, f, t, i) == [exports |-> e, funcs |-> f, tags |-> t, imports |-> i]

TextAusesB == Text(<<"A">>, <<"B">>, <<"B", "B">>, <<RelImport("B")>>)
TextBusesAC == Text(<<"B">>, <<>>, <<"A", "C">>, <<RelImport("A")>>)
TextACself == Text(<<"A", "C">>, <<>>, <<"C">>, <<PkgImport("B")>>)
TextPlain == Text(<<>>, <<>>, <<>>, <<>>)

Texts == {TextAusesB, TextBusesAC, TextACself, TextPlain}

Component(name, path) == [Name |-> name, Path |-> path]

MapPut(m, k, v) == [x \in DOMAIN m \cup {k} |-> IF x = k THEN v ELSE m[x]]

EmptyMap == [x \in {} |-> 0]

----------------------------------------------------------------------------
(* main.go, phase 1: extractComponents *)

RECURSIVE putExports(_, _, _)
putExports(cc, names, path) ==
    IF names = <<>> THEN cc
    ELSE putExports(MapPut(cc, Head(names), Component(Head(names), path)),
                    Tail(names), path)

\* A fallback rule that registers the name whatever the map holds.
fallbackAlways(cc, name) == TRUE

\* The fallback rule registers a name only when the map has no entry for it.
fallbackApplies(cc, name) == name \notin DOMAIN cc

RECURSIVE putFuncs(_, _, _)
putFuncs(cc, names, path) ==
    IF names = <<>> THEN cc
    ELSE putFuncs(IF fallbackApplies(cc, Head(names))
                  THEN MapPut(cc, Head(names), Component(Head(names), path))
                  ELSE cc,
                  Tail(names), path)

extractComponents(cc, content, path) ==
    putFuncs(putExports(cc, content.exports, path), content.funcs, path)

----------------------------------------------------------------------------
(* The Content Provider's answers.  A call made after the deadline fails.   *)

FetchOutcomes(expired) == IF expired THEN {"err"} ELSE {"ok", "err"}

\* Sizes the provider may report for a file; larger than MaxFileSize is skipped.
MaxFileSize == 1000000
FileSizes == {1000, 2000000}

----------------------------------------------------------------------------
(* main.go: func main, ProcessRepository, processDirectory, processFile *)

Phase1 == {"start", "p1wait"}
\* The positions of main at which the context is still consulted.
Running == {"start", "p1wait", "build", "p2wait"}

\* wg.Add(1); go func(content) for every entry of a listing.
Spawned(g, path) ==
    [e \in Entries |->
        IF \E i \in 1..Len(Listing(path)) : Listing(path)[i].Path = e
        THEN "ready" ELSE g[e]]

\* A join that does not wait for the goroutines of the level.
WaitDoneNoWait(level) == TRUE

\* wg.Wait() returns when the counter of the level is zero.
WaitDone(level) == wg[level] = 0

\* close(errChan); the first error in the channel is returned, else nil.
Drain(ch) == IF ch = <<>> THEN "nil" ELSE Head(ch)

\* An error channel without a buffer.
errChanUnbuffered(level) == 0

\* make(chan error, len(dirContent)) and make(chan error, len(componentNodes)):
\* the capacity of the error channel of a level.
errChanCap(level) ==
    IF level = BuildLevel THEN Cardinality(DOMAIN componentNodes)
    ELSE Len(Listing(level))

\* errChan <- err proceeds when the buffer has room (no receiver runs before
\* wg.Wait() has returned).
CanSend(level) == Len(errChan[level]) < errChanCap(level)

\* The goroutine of entry e ends: it sends a non-nil error, then wg.Done().
GoReturn(e, err) ==
    /\ err # "nil" => CanSend(ParentLevel(e))
    /\ gpc' = [gpc EXCEPT ![e] = "done"]
    /\ errChan' = IF err = "nil" THEN errChan
                  ELSE [errChan EXCEPT ![ParentLevel(e)] = Append(@, err)]

\* The root listing's error is dropped and the walk goes on.
rootListingErrorIgnored(out) == FALSE

\* if err != nil after the root listing: the error is returned.
rootListingFailed(out) == out = "err"

\* ProcessRepository: the root listing, then one goroutine per entry.
ProcessRepository ==
    /\ mainpc = "start"
    /\ \E out \in FetchOutcomes(ctxDone) :
         /\ hist' = [hist EXCEPT !.rootListing = out]
         /\ IF rootListingFailed(out)
            THEN /\ mainpc' = "fatal"
                 /\ UNCHANGED <<gpc, wg>>
            ELSE /\ mainpc' = "p1wait"
                 /\ gpc' = Spawned(gpc, RootPath)
                 /\ wg' = [wg EXCEPT ![RootPath] = Len(Listing(RootPath))]
    /\ UNCHANGED <<repo, createdComponents, rootComponents, componentsMutex, ctxDone,
                   errChan, componentNodes, wpc, widx, encStack, rootIdx, jsonOut>>
    /\ UNCHANGED svcVars

\* processDirectory in the goroutine of a "dir" entry: the listing.  A failed
\* listing is a warning and the call returns nil.
processDirectory(e) ==
    /\ e \in Dirs
    /\ gpc[e] = "ready"
    /\ \E out \in FetchOutcomes(ctxDone) :
         IF out = "err"
         THEN /\ GoReturn(e, "nil")
              /\ wg' = [wg EXCEPT ![ParentLevel(e)] = @ - 1]
              /\ hist' = [hist EXCEPT !.listFailed = @ \cup {e}]
         ELSE /\ gpc' = [Spawned(gpc, e) EXCEPT ![e] = "waiting"]
              /\ wg' = [wg EXCEPT ![e] = Len(Listing(e))]
              /\ UNCHANGED <<errChan, hist>>
    /\ UNCHANGED <<repo, createdComponents, rootComponents, componentsMutex, mainpc,
                   ctxDone, componentNodes, wpc, widx, encStack, rootIdx, jsonOut>>
    /\ UNCHANGED svcVars

\* processDirectory after wg.Wait(): the collected error (or nil) is returned to
\* the goroutine, which ends.
processDirectoryJoin(e) ==
    /\ e \in Dirs
    /\ gpc[e] = "waiting"
    /\ WaitDone(e)
    /\ GoReturn(e, Drain(errChan[e]))
    /\ wg' = [wg EXCEPT ![ParentLevel(e)] = @ - 1]
    /\ UNCHANGED <<repo, createdComponents, rootComponents, componentsMutex, mainpc,
                   ctxDone, componentNodes, wpc, widx, encStack, rootIdx, jsonOut,
                   hist>>
    /\ UNCHANGED svcVars

\* processFile in the goroutine of a "file" entry, up to the call of
\* extractComponents: fetch, size check, decoding.  Every failure is a warning.
processFile(e) ==
    /\ e \in Files
    /\ gpc[e] = "ready"
    /\ \E out \in FetchOutcomes(ctxDone), size \in FileSizes, decoded \in BOOLEAN :
         IF out = "err" \/ size > MaxFileSize \/ ~decoded
         THEN /\ GoReturn(e, "nil")
              /\ wg' = [wg EXCEPT ![ParentLevel(e)] = @ - 1]
         ELSE /\ gpc' = [gpc EXCEPT ![e] = "extract"]
              /\ UNCHANGED <<wg, errChan>>
    /\ UNCHANGED <<repo, createdComponents, rootComponents, componentsMutex, mainpc,
                   ctxDone, componentNodes, wpc, widx, encStack, rootIdx, jsonOut,
                   hist>>
    /\ UNCHANGED svcVars

\* extractComponents: componentsMutex.Lock().
extractLock(e) ==
    /\ e \in Files
    /\ gpc[e] = "extract"
    /\ componentsMutex = NoHolder
    /\ componentsMutex' = e
    /\ gpc' = [gpc EXCEPT ![e] = "locked"]
    /\ UNCHANGED <<repo, createdComponents, rootComponents, mainpc, ctxDone, wg, errChan,
                   componentNodes, wpc, widx, encStack, rootIdx, jsonOut, hist>>
    /\ UNCHANGED svcVars

\* extractComponents under the lock: both rules, the deferred Unlock, and the
\* return of processFile (nil) to the goroutine, which ends.
extractWrite(e) ==
    /\ e \in Files
    /\ gpc[e] = "locked"
    /\ createdComponents' = extractComponents(createdComponents, repo[e], e)
    /\ componentsMutex' = NoHolder
    /\ GoReturn(e, "nil")
    /\ wg' = [wg EXCEPT ![ParentLevel(e)] = @ - 1]
    /\ hist' = [hist EXCEPT !.extracted = @ \cup {e}]
    /\ UNCHANGED <<repo, rootComponents, mainpc, ctxDone, componentNodes, wpc, widx,
                   encStack, rootIdx, jsonOut>>
    /\ UNCHANGED svcVars

\* ProcessRepository after wg.Wait(): an error in the channel is fatal in main.
ProcessRepositoryJoin ==
    /\ mainpc = "p1wait"
    /\ WaitDone(RootPath)
    /\ mainpc' = IF Drain(errChan[RootPath]) = "nil" THEN "build" ELSE "fatal"
    /\ UNCHANGED <<repo, createdComponents, rootComponents, componentsMutex, ctxDone,
                   gpc, wg, errChan, componentNodes, wpc, widx, encStack, rootIdx,
                   jsonOut, hist>>
    /\ UNCHANGED svcVars

\* A call to the provider is still to be made by main or by a goroutine.
fetchOutstanding ==
    \/ mainpc = "start"
    \/ \E e \in Entries : gpc[e] = "ready"
    \/ \E n \in Names : wpc[n] = "ready"

\* The deadline of context.WithTimeout passes while main is running.
DeadlineExpires ==
    /\ mainpc \in Running
    /\ ~ctxDone
    /\ ctxDone' = TRUE
    /\ hist' = [hist EXCEPT !.expiredIn = IF fetchOutstanding THEN mainpc ELSE "quiet"]
    /\ UNCHANGED <<repo, createdComponents, rootComponents, componentsMutex, mainpc,
                   gpc, wg, errChan, componentNodes, wpc, widx, encStack, rootIdx,
                   jsonOut>>
    /\ UNCHANGED svcVars

----------------------------------------------------------------------------
(* main.go, phase 2: BuildComponentTree *)

Node(comp) == [Component |-> comp, Children |-> <<>>, Parent |-> NoNode]

\* All orders in which a range over a Go map may visit the keys in S.
Orders(S) ==
    {q \in [1..Cardinality(S) -> S] : \A i, j \in 1..Cardinality(S) : q[i] = q[j] => i = j}

\* node.Children = append(node.Children, childNode); childNode.Parent = node
link(nodes, parent, child) ==
    [n \in DOMAIN nodes |->
        [Component |-> nodes[n].Component,
         Children  |-> IF n = parent THEN Append(nodes[n].Children, child)
                       ELSE nodes[n].Children,
         Parent    |-> IF n = child THEN parent ELSE nodes[n].Parent]]

\* The loop over componentNodes that collects the roots tests node.Parent == nil.
isRoot(nodes, n) == nodes[n].Parent = NoNode

\* BuildComponentTree: one node per registry entry, one goroutine per node.
BuildComponentTree ==
    /\ mainpc = "build"
    /\ componentNodes' = [n \in DOMAIN createdComponents |-> Node(createdComponents[n])]
    /\ wpc' = [n \in Names |-> IF n \in DOMAIN createdComponents THEN "ready" ELSE wpc[n]]
    /\ wg' = [wg EXCEPT ![BuildLevel] = Cardinality(DOMAIN createdComponents)]
    /\ mainpc' = "p2wait"
    /\ UNCHANGED <<repo, createdComponents, rootComponents, componentsMutex, ctxDone,
                   gpc, errChan, widx, encStack, rootIdx, jsonOut, hist>>
    /\ UNCHANGED svcVars

\* The goroutine of node n: fetch and decode the defining file.  After a
\* failure the goroutine goes on to send the error.
buildFetch(n) ==
    /\ n \in Names
    /\ wpc[n] = "ready"
    /\ \E out \in FetchOutcomes(ctxDone), decoded \in BOOLEAN :
         IF out = "err" \/ ~decoded
         THEN /\ wpc' = [wpc EXCEPT ![n] = "send"]
              /\ UNCHANGED widx
         ELSE /\ wpc' = [wpc EXCEPT ![n] = "scan"]
              /\ widx' = [widx EXCEPT ![n] = 1]
    /\ UNCHANGED <<repo, createdComponents, rootComponents, componentsMutex, mainpc,
                   ctxDone, gpc, wg, errChan, componentNodes, encStack, rootIdx, jsonOut,
                   hist>>
    /\ UNCHANGED svcVars

\* The goroutine of node n sends its error (errChan <- fmt.Errorf(...)) and
\* returns: the deferred wg.Done() runs.
buildSend(n) ==
    /\ n \in Names
    /\ wpc[n] = "send"
    /\ CanSend(BuildLevel)
    /\ errChan' = [errChan EXCEPT ![BuildLevel] = Append(@, n)]
    /\ wg' = [wg EXCEPT ![BuildLevel] = @ - 1]
    /\ wpc' = [wpc EXCEPT ![n] = "done"]
    /\ UNCHANGED <<repo, createdComponents, rootComponents, componentsMutex, mainpc,
                   ctxDone, gpc, componentNodes, widx, encStack, rootIdx, jsonOut, hist>>
    /\ UNCHANGED svcVars

\* One iteration of the loop over the tag matches of the file of node n.
buildScan(n) ==
    /\ n \in Names
    /\ wpc[n] = "scan"
    /\ LET matches == repo[componentNodes[n].Component.Path].tags
       IN  /\ widx[n] <= Len(matches)
           /\ componentNodes' =
                 IF matches[widx[n]] \in DOMAIN componentNodes
                 THEN link(componentNodes, n, matches[widx[n]])
                 ELSE componentNodes
    /\ widx' = [widx EXCEPT ![n] = @ + 1]
    /\ UNCHANGED <<repo, createdComponents, rootComponents, componentsMutex, mainpc,
                   ctxDone, gpc, wg, errChan, wpc, encStack, rootIdx, jsonOut, hist>>
    /\ UNCHANGED svcVars

\* The loop of the goroutine of node n is over: wg.Done().
buildDone(n) ==
    /\ n \in Names
    /\ wpc[n] = "scan"
    /\ widx[n] > Len(repo[componentNodes[n].Component.Path].tags)
    /\ wpc' = [wpc EXCEPT ![n] = "done"]
    /\ wg' = [wg EXCEPT ![BuildLevel] = @ - 1]
    /\ UNCHANGED <<repo, createdComponents, rootComponents, componentsMutex, mainpc,
                   ctxDone, gpc, errChan, componentNodes, widx, encStack, rootIdx,
                   jsonOut, hist>>
    /\ UNCHANGED svcVars

\* BuildComponentTree after wg.Wait(): the errors are printed as warnings, the
\* nodes without a parent are appended to rootComponents in map order, and nil
\* is returned.
BuildComponentTreeJoin ==
    /\ mainpc = "p2wait"
    /\ WaitDone(BuildLevel)
    /\ \E order \in Orders({n \in DOMAIN componentNodes : isRoot(componentNodes, n)}) :
         rootComponents' = rootComponents \o order
    /\ mainpc' = "print"
    /\ UNCHANGED <<repo, createdComponents, componentsMutex, ctxDone, gpc, wg, errChan,
                   componentNodes, wpc, widx, encStack, rootIdx, jsonOut, hist>>
    /\ UNCHANGED svcVars

----------------------------------------------------------------------------
(* main.go: PrintResults.  json.MarshalIndent walks rootComponents depth     *)
(* first; a ComponentNode of main.go has no MarshalJSON and no json:"-", so  *)
(* the encoder follows Children and then Parent.  Past                       *)
(* startDetectingCyclesAfter nested pointers the encoder remembers the       *)
(* pointers it is inside of and fails when it meets one of them again.       *)

\* The pointers the encoder follows out of a node, in struct field order.
jsonFields(node) ==
    node.Children \o (IF node.Parent = NoNode THEN <<>> ELSE <<node.Parent>>)

Frame(n) == [node |-> n, next |-> 1]

cycleDetected(stack, target) ==
    /\ Len(stack) + 1 > startDetectingCyclesAfter
    /\ \E i \in (startDetectingCyclesAfter + 1)..Len(stack) : stack[i].node = target

PrintResults ==
    /\ mainpc = "print"
    /\ IF encStack = <<>>
       THEN IF rootIdx <= Len(rootComponents)
            THEN /\ encStack' = <<Frame(rootComponents[rootIdx])>>
                 /\ rootIdx' = rootIdx + 1
                 /\ UNCHANGED <<jsonOut, mainpc>>
            ELSE /\ jsonOut' = "printed"
                 /\ mainpc' = "done"
                 /\ UNCHANGED <<encStack, rootIdx>>
       ELSE LET top == encStack[Len(encStack)]
                fields == jsonFields(componentNodes[top.node])
                rest == SubSeq(encStack, 1, Len(encStack) - 1)
            IN  IF top.next > Len(fields)
                THEN /\ encStack' = rest
                     /\ UNCHANGED <<rootIdx, jsonOut, mainpc>>
                ELSE IF cycleDetected(encStack, fields[top.next])
                THEN /\ jsonOut' = "error"
                     /\ mainpc' = "done"
                     /\ UNCHANGED <<encStack, rootIdx>>
                ELSE /\ encStack' = Append(rest, [top EXCEPT !.next = @ + 1])
                                      \o <<Frame(fields[top.next])>>
                     /\ UNCHANGED <<rootIdx, jsonOut, mainpc>>
    /\ UNCHANGED <<repo, createdComponents, rootComponents, componentsMutex, ctxDone,
                   gpc, wg, errChan, componentNodes, wpc, widx, hist>>
    /\ UNCHANGED svcVars

----------------------------------------------------------------------------
(* rgc.go: the service variant.  Request r runs handleGarbageRequest ->      *)
(* ProcessRepository -> processRepoContents -> buildComponentTree; requests  *)
(* are served by concurrent goroutines of the HTTP server and share the      *)
(* package-level globals.                                                    *)

Requests == 1..MaxRequests

InProgress == {"walk", "build"}

isComponent(path) == path[Len(path)] \in {".tsx", ".jsx"}

\* The last segment of the path without its extension.
extractComponentName(path) == path[Len(path) - 1]

\* processFile of rgc.go, under componentsMutex.
rgcProcessFile(cc, path) ==
    IF isComponent(path)
    THEN MapPut(cc, extractComponentName(path),
                Component(extractComponentName(path), path))
    ELSE cc

\* The base names of the relative imports of a text, in order.
RECURSIVE findChildComponents(_)
findChildComponents(imports) ==
    IF imports = <<>> THEN <<>>
    ELSE (IF Head(imports).relative THEN <<Head(imports).base>> ELSE <<>>)
         \o findChildComponents(Tail(imports))

\* The node buildComponentTree makes for a component: a fresh child node, with
\* Parent set, for every child name found in the registry.
RECURSIVE childNodes(_, _, _)
childNodes(cc, names, parent) ==
    IF names = <<>> THEN <<>>
    ELSE (IF Head(names) \in DOMAIN cc
          THEN <<[Component |-> cc[Head(names)], Children |-> <<>>, Parent |-> parent]>>
          ELSE <<>>)
         \o childNodes(cc, Tail(names), parent)

rgcNode(cc, comp, content) ==
    [Component |-> comp,
     Children  |-> childNodes(cc, findChildComponents(content.imports), comp.Name),
     Parent    |-> NoNode]

\* buildComponentTree appends the node when node.Parent == nil.
rgcIsRoot(node) == node.Parent = NoNode

isImportedByOthers(roots, node) ==
    \E i \in 1..Len(roots) : \E j \in 1..Len(roots[i].Children) :
        roots[i].Children[j].Component.Name = node.Component.Name

\* The test that puts a root into result.Used.
isUsed(roots, node) == Len(node.Children) > 0 \/ isImportedByOthers(roots, node)

\* The classification loop of ProcessRepository over rootComponents.
ComponentsResult(roots) ==
    LET used(node) == isUsed(roots, node)
        unused(node) == ~isUsed(roots, node)
    IN  [UsedCount   |-> Len(SelectSeq(roots, used)),
         UnusedCount |-> Len(SelectSeq(roots, unused)),
         Used        |-> SelectSeq(roots, used),
         Unused      |-> SelectSeq(roots, unused)]

Response(code, body) == [status |-> code, body |-> body]

ErrBind == "invalid request body"
ErrToken == "GITHUB_TOKEN environment variable not set"
ErrRootListing == "error processing repository: error getting repository contents"
ErrDirListing == "error processing repository: error getting directory contents"
ErrFileContents == "error building component tree: error getting file contents"
ErrDecode == "error building component tree: error decoding file contents"

\* if err != nil after the root listing of processRepoContents.
rgcRootListingFailed(out) == out = "err"

\* handleGarbageRequest up to the root listing of processRepoContents; requests
\* are numbered in the order in which the server takes them up.  A body
\* that does not bind is answered 400; a missing token or a failed root
\* listing is answered 500.
handleGarbageRequest(r) ==
    /\ rpc[r] = "idle"
    /\ \A q \in Requests : q < r => rpc[q] # "idle"
    /\ \E bound \in BOOLEAN, token \in BOOLEAN, out \in {"ok", "err"} :
         /\ rstart' = [q \in Requests |->
                IF q = r
                THEN [fresh   |-> createdComponents = EmptyMap /\ rootComponents = <<>>,
                      solo    |-> \A o \in Requests : rpc[o] \notin InProgress,
                      prior   |-> {o \in Requests : rpc[o] = "ok"},
                      listing |-> IF bound /\ token THEN out ELSE "none"]
                ELSE IF rpc[q] \in InProgress THEN [rstart[q] EXCEPT !.solo = FALSE]
                ELSE rstart[q]]
         /\ IF ~bound
            THEN /\ rpc' = [rpc EXCEPT ![r] = "failed"]
                 /\ rresult' = [rresult EXCEPT ![r] = Response(400, ErrBind)]
                 /\ UNCHANGED rwork
            ELSE IF ~token
            THEN /\ rpc' = [rpc EXCEPT ![r] = "failed"]
                 /\ rresult' = [rresult EXCEPT ![r] = Response(500, ErrToken)]
                 /\ UNCHANGED rwork
            ELSE IF rgcRootListingFailed(out)
            THEN /\ rpc' = [rpc EXCEPT ![r] = "failed"]
                 /\ rresult' = [rresult EXCEPT ![r] = Response(500, ErrRootListing)]
                 /\ UNCHANGED rwork
            ELSE /\ rpc' = [rpc EXCEPT ![r] = "walk"]
                 /\ rwork' = [rwork EXCEPT ![r] = Listing(RootPath)]
                 /\ UNCHANGED rresult
    /\ UNCHANGED <<repo, createdComponents, rootComponents, componentsMutex, rtodo>>
    /\ UNCHANGED cliVars

\* processDirectory of rgc.go for the next entry of the walk, a directory: its
\* entries are processed before the rest; a failed listing is returned as an
\* error through every caller.
rgcProcessDirectory(r) ==
    /\ rpc[r] = "walk"
    /\ rwork[r] # <<>>
    /\ Head(rwork[r]).Type = "dir"
    /\ \E out \in {"ok", "err"} :
         IF out = "err"
         THEN /\ rpc' = [rpc EXCEPT ![r] = "failed"]
              /\ rresult' = [rresult EXCEPT ![r] = Response(500, ErrDirListing)]
              /\ UNCHANGED rwork
         ELSE /\ rwork' = [rwork EXCEPT ![r] = Listing(Head(@).Path) \o Tail(@)]
              /\ UNCHANGED <<rpc, rresult>>
    /\ UNCHANGED <<repo, createdComponents, rootComponents, componentsMutex, rtodo, rstart>>
    /\ UNCHANGED cliVars

\* processFile of rgc.go for the next entry of the walk, a file.
rgcWalkFile(r) ==
    /\ rpc[r] = "walk"
    /\ rwork[r] # <<>>
    /\ Head(rwork[r]).Type = "file"
    /\ componentsMutex = NoHolder
    /\ createdComponents' = rgcProcessFile(createdComponents, Head(rwork[r]).Path)
    /\ rwork' = [rwork EXCEPT ![r] = Tail(@)]
    /\ UNCHANGED <<repo, rootComponents, componentsMutex, rpc, rtodo, rresult, rstart>>
    /\ UNCHANGED cliVars

\* processRepoContents returns nil and buildComponentTree starts to range over
\* createdComponents.
processRepoContents(r) ==
    /\ rpc[r] = "walk"
    /\ rwork[r] = <<>>
    /\ rpc' = [rpc EXCEPT ![r] = "build"]
    /\ rtodo' = [rtodo EXCEPT ![r] = DOMAIN createdComponents]
    /\ UNCHANGED <<repo, createdComponents, rootComponents, componentsMutex, rwork,
                   rresult, rstart>>
    /\ UNCHANGED cliVars

\* One iteration of the loop of buildComponentTree, in map order: a 404 skips
\* the component, any other failure is returned as an error.
buildComponentTree(r) ==
    /\ rpc[r] = "build"
    /\ \E n \in rtodo[r], out \in {"ok", "notfound", "err"}, decoded \in BOOLEAN :
         IF out = "notfound"
         THEN /\ rtodo' = [rtodo EXCEPT ![r] = @ \ {n}]
              /\ UNCHANGED <<rootComponents, rpc, rresult>>
         ELSE IF out = "err" \/ ~decoded
         THEN /\ rpc' = [rpc EXCEPT ![r] = "failed"]
              /\ rresult' = [rresult EXCEPT ![r] =
                                Response(500, IF out = "err" THEN ErrFileContents
                                              ELSE ErrDecode)]
              /\ UNCHANGED <<rootComponents, rtodo>>
         ELSE LET node == rgcNode(createdComponents, createdComponents[n],
                                  repo[createdComponents[n].Path])
              IN  /\ rootComponents' = IF rgcIsRoot(node)
                                       THEN Append(rootComponents, node)
                                       ELSE rootComponents
                  /\ rtodo' = [rtodo EXCEPT ![r] = @ \ {n}]
                  /\ UNCHANGED <<rpc, rresult>>
    /\ UNCHANGED <<repo, createdComponents, componentsMutex, rwork, rstart>>
    /\ UNCHANGED cliVars

\* buildComponentTree returns nil; ProcessRepository classifies rootComponents
\* and the handler answers 200 with the result.
rgcProcessRepository(r) ==
    /\ rpc[r] = "build"
    /\ rtodo[r] = {}
    /\ rpc' = [rpc EXCEPT ![r] = "ok"]
    /\ rresult' = [rresult EXCEPT ![r] = Response(200, ComponentsResult(rootComponents))]
    /\ UNCHANGED <<repo, createdComponents, rootComponents, componentsMutex, rwork,
                   rtodo, rstart>>
    /\ UNCHANGED cliVars

----------------------------------------------------------------------------
(* The command-line program *)

InitGlobals ==
    /\ repo \in [Files -> Texts]
    /\ createdComponents = EmptyMap
    /\ rootComponents = <<>>
    /\ componentsMutex = NoHolder

InitCLIVars(pc) ==
    /\ mainpc = pc
    /\ ctxDone = FALSE
    /\ gpc = [e \in Entries |-> "idle"]
    /\ wg = [l \in Levels |-> 0]
    /\ errChan = [l \in Levels |-> <<>>]
    /\ componentNodes = EmptyMap
    /\ wpc = [n \in Names |-> "idle"]
    /\ widx = [n \in Names |-> 0]
    /\ encStack = <<>>
    /\ rootIdx = 1
    /\ jsonOut = "none"
    /\ hist = [expiredIn |-> "never", rootListing |-> "none", listFailed |-> {},
               extracted |-> {}]

InitSvcVars(pc) ==
    /\ rpc = [r \in 1..MaxRequests |-> pc]
    /\ rwork = [r \in 1..MaxRequests |-> <<>>]
    /\ rtodo = [r \in 1..MaxRequests |-> {}]
    /\ rresult = [r \in 1..MaxRequests |-> <<>>]
    /\ rstart = [r \in 1..MaxRequests |-> <<>>]

InitCLI == InitGlobals /\ InitCLIVars("start") /\ InitSvcVars("off")

NextCLI ==
    \/ ProcessRepository
    \/ \E e \in Dirs : processDirectory(e)
    \/ \E e \in Dirs : processDirectoryJoin(e)
    \/ \E e \in Files : processFile(e)
    \/ \E e \in Files : extractLock(e)
    \/ \E e \in Files : extractWrite(e)
    \/ ProcessRepositoryJoin
    \/ BuildComponentTree
    \/ \E n \in Names : buildFetch(n)
    \/ \E n \in Names : buildSend(n)
    \/ \E n \in Names : buildScan(n)
    \/ \E n \in Names : buildDone(n)
    \/ BuildComponentTreeJoin
    \/ PrintResults
    \/ DeadlineExpires

SpecCLI == InitCLI /\ [][NextCLI]_vars

\* The steps of main and of its goroutines: every step but the deadline's.
\* The scheduler runs every goroutine that can take a step, and every call to
\* the provider returns (with an error once the deadline has passed).
ProgramStep == NextCLI /\ ctxDone' = ctxDone

SpecCLIFair == SpecCLI /\ WF_vars(ProgramStep)

----------------------------------------------------------------------------
(* The service *)

InitSvc == InitGlobals /\ InitCLIVars("off") /\ InitSvcVars("idle")

NextSvc ==
    \/ \E r \in Requests : handleGarbageRequest(r)
    \/ \E r \in Requests : rgcProcessDirectory(r)
    \/ \E r \in Requests : rgcWalkFile(r)
    \/ \E r \in Requests : processRepoContents(r)
    \/ \E r \in Requests : buildComponentTree(r)
    \/ \E r \in Requests : rgcProcessRepository(r)

SpecSvc == InitSvc /\ [][NextSvc]_vars

----------------------------------------------------------------------------
(* Either program, the service handling its requests one after another *)

\* A request is taken up when no other request is being handled.
successiveRequest(r) ==
    /\ \A o \in Requests : rpc[o] \notin InProgress
    /\ handleGarbageRequest(r)

Init == InitCLI \/ InitSvc

Next ==
    \/ NextCLI
    \/ \E r \in Requests : successiveRequest(r)
    \/ \E r \in Requests : rgcProcessDirectory(r)
    \/ \E r \in Requests : rgcWalkFile(r)
    \/ \E r \in Requests : processRepoContents(r)
    \/ \E r \in Requests : buildComponentTree(r)
    \/ \E r \in Requests : rgcProcessRepository(r)

Spec == Init /\ [][Next]_vars

----------------------------------------------------------------------------
(* Vocabulary of the properties *)

\* main has left phase 1 without a fatal error.
Phase1Over == mainpc \in {"build", "p2wait", "print", "done"}

\* BuildComponentTree has returned.
Phase2Over == mainpc \in {"print", "done"}

\* Request r has been taken up.
Started(r) == rpc[r] \notin {"off", "idle"}

\* The files of the repository in pre-order traversal order.
RECURSIVE walkOrder(_)
walkOrder(entries) ==
    IF entries = <<>> THEN <<>>
    ELSE (IF Head(entries).Type = "dir"
          THEN walkOrder(Listing(Head(entries).Path))
          ELSE <<Head(entries).Path>>)
         \o walkOrder(Tail(entries))

TraversalOrder == walkOrder(Listing(RootPath))

Reverse(q) == [i \in 1..Len(q) |-> q[Len(q) + 1 - i]]

\* The registry obtained by applying extractComponents to the files of `done`
\* one after another in the order `files`.
RECURSIVE registryOf(_, _, _)
registryOf(cc, files, done) ==
    IF files = <<>> THEN cc
    ELSE registryOf(IF Head(files) \in done
                    THEN extractComponents(cc, repo[Head(files)], Head(files))
                    ELSE cc,
                    Tail(files), done)

NodeNames(nodes) == [i \in 1..Len(nodes) |-> nodes[i].Component.Name]

\* Directory d is above entry e.
Below(d, e) == Len(d) < Len(e) /\ SubSeq(e, 1, Len(d)) = d

\* The nodes of main.go that rootComponents holds, and the nodes reachable
\* from them through one or more Children edges.
RootSet == {rootComponents[i] : i \in 1..Len(rootComponents)}

ChildrenOf(S) ==
    {c \in DOMAIN componentNodes :
        \E n \in S : \E i \in 1..Len(componentNodes[n].Children) :
            componentNodes[n].Children[i] = c}

RECURSIVE descendants(_, _)
descendants(S, k) ==
    IF k = 0 THEN ChildrenOf(S)
    ELSE descendants(S \cup ChildrenOf(S), k - 1)

ReachableFromRoots == descendants(RootSet, Cardinality(Names))

----------------------------------------------------------------------------
(* C1 *)

\* C1 (main.go, name collision): when several files yield an exported
\* component of the same name, the surviving entry's Path is fixed by the
\* traversal order and not by the interleaving: after phase 1 the registry is
\* the one obtained by applying the files that were read in traversal order,
\* under the rule "the later file wins" or under the rule "the earlier file
\* wins".
C1_PathFixedByTraversalOrder ==
    Phase1Over =>
        \/ createdComponents = registryOf(EmptyMap, TraversalOrder, hist.extracted)
        \/ createdComponents = registryOf(EmptyMap, Reverse(TraversalOrder), hist.extracted)

----------------------------------------------------------------------------
(* C2 *)

\* Scenario 1 for request r: empty globals at its start, handled alone,
\* registry {A, B}, A's file imports B, B's file imports no component.
Scenario1(r) ==
    /\ rpc[r] = "ok"
    /\ rstart[r].fresh /\ rstart[r].solo
    /\ DOMAIN createdComponents = {"A", "B"}
    /\ findChildComponents(repo[createdComponents["A"].Path].imports) = <<"B">>
    /\ findChildComponents(repo[createdComponents["B"].Path].imports) = <<>>

\* C2 (rgc.go, scenario 1): the request answers with the root list [A]: A is
\* used and has the child B, and B is neither in Used nor in Unused.
C2_Scenario1Roots ==
    \A r \in Requests :
        Scenario1(r) =>
            /\ NodeNames(rresult[r].body.Used) = <<"A">>
            /\ NodeNames(rresult[r].body.Used[1].Children) = <<"B">>
            /\ rresult[r].body.Unused = <<>>

----------------------------------------------------------------------------
(* C3 *)

\* C3 (rgc.go, classification): in every result a root is in Used iff it has
\* at least one child and in Unused iff it has none; no root without children
\* is in Used.
C3_UsedIffHasChildren ==
    \A r \in Requests :
        rpc[r] = "ok" =>
            /\ \A i \in 1..Len(rresult[r].body.Used) :
                  Len(rresult[r].body.Used[i].Children) > 0
            /\ \A i \in 1..Len(rresult[r].body.Unused) :
                  Len(rresult[r].body.Unused[i].Children) = 0

----------------------------------------------------------------------------
(* C4 *)

\* Request r2 was taken up after r1 had answered; r1 began with empty globals
\* and neither overlapped another request.
SuccessivePair(r1, r2) ==
    /\ rpc[r1] = "ok" /\ rpc[r2] = "ok"
    /\ rstart[r1].fresh /\ rstart[r1].solo /\ rstart[r2].solo
    /\ r1 \in rstart[r2].prior

\* C4 (rgc.go, idempotence): two successive requests over the same repository
\* return the same Used and Unused sequences and the same counts.
C4_SecondCallSameResult ==
    \A r1, r2 \in Requests :
        SuccessivePair(r1, r2) => rresult[r2].body = rresult[r1].body

----------------------------------------------------------------------------
(* C5 *)

\* C5 (main.go, partition): after BuildComponentTree every registered
\* component is either in rootComponents or reachable from a root through
\* Children edges, never both and never neither.
C5_RootsAndDescendantsPartition ==
    Phase2Over =>
        \A n \in DOMAIN componentNodes : (n \in RootSet) # (n \in ReachableFromRoots)

----------------------------------------------------------------------------
(* C6 *)

\* C6 (main.go, serialization): while rootComponents is serialized no node is
\* expanded again beneath itself, and the serialization ends with the
\* structure printed, not with an error.
C6_SerializationCycleSafe ==
    /\ \A i, j \in 1..Len(encStack) : encStack[i].node = encStack[j].node => i = j
    /\ jsonOut # "error"

----------------------------------------------------------------------------
(* C7 *)

\* main.go: after a failed root listing main is at log.Fatalf and nothing
\* else has happened.
RootListingFatalCLI ==
    hist.rootListing = "err" =>
        /\ mainpc = "fatal"
        /\ \A e \in Entries : gpc[e] = "idle"
        /\ \A n \in Names : wpc[n] = "idle"
        /\ componentNodes = EmptyMap
        /\ jsonOut = "none"
        /\ createdComponents = EmptyMap
        /\ rootComponents = <<>>

\* rgc.go: a request whose root listing failed is answered 500 with that
\* error; it walked nothing and ranged over nothing.
RootListingFatalSvc ==
    \A r \in Requests :
        (Started(r) /\ rstart[r].listing = "err") =>
            /\ rpc[r] = "failed"
            /\ rresult[r] = Response(500, ErrRootListing)
            /\ rwork[r] = <<>>
            /\ rtodo[r] = {}

\* rgc.go: the step in which the root listing fails changes neither global.
RootListingStep ==
    \A r \in Requests :
        (rpc[r] = "idle" /\ rpc'[r] # "idle" /\ rstart'[r].listing = "err") =>
            /\ createdComponents' = createdComponents
            /\ rootComponents' = rootComponents

\* C7 (both programs): when the listing of the repository root fails, the
\* operation ends with an error; no goroutine is spawned, phase 2 never
\* starts, nothing is printed or returned as a result, and the registry and
\* the root list are left as they were.
C7_RootListingFatal ==
    /\ [](RootListingFatalCLI /\ RootListingFatalSvc)
    /\ [][RootListingStep]_vars

\* The root listing of main.go has failed.
C7_RootListingFailed == hist.rootListing = "err" /\ mainpc = "fatal"

----------------------------------------------------------------------------
(* C8 *)

\* main.go: phase 1 fails only when the root listing failed; after it every
\* entry that is not below a failed listing has been processed and the
\* exported names of every file read are registered.
BestEffortWalkCLI ==
    /\ hist.rootListing = "ok" => mainpc # "fatal"
    /\ Phase1Over =>
          /\ \A e \in Entries :
                (\A d \in hist.listFailed : ~Below(d, e)) => gpc[e] = "done"
          /\ \A e \in hist.extracted : \A i \in 1..Len(repo[e].exports) :
                repo[e].exports[i] \in DOMAIN createdComponents

\* rgc.go: a request whose root listing succeeded does not fail because the
\* listing of a directory below the root failed.
BestEffortWalkSvc ==
    \A r \in Requests :
        (Started(r) /\ rstart[r].listing = "ok") =>
            ~(rpc[r] = "failed" /\ rresult[r] = Response(500, ErrDirListing))

\* C8 (both programs): when the listing of a directory below the root fails
\* during phase 1, only that subtree is skipped; every other entry is
\* processed, its components are registered, and phase 1 succeeds.
C8_SubtreeFailureSkipsOnlySubtree == BestEffortWalkCLI /\ BestEffortWalkSvc

----------------------------------------------------------------------------
(* C9 *)

\* C9 (main.go, deadline): when the deadline expires in phase 1 or phase 2
\* while a call to the provider is still to be made, the program ends with an
\* error; nothing is appended to rootComponents and nothing is printed.
C9_DeadlineNeverPrints ==
    hist.expiredIn \in {"p1wait", "p2wait"} =>
        /\ mainpc \notin {"print", "done"}
        /\ rootComponents = <<>>

----------------------------------------------------------------------------
(* C10 *)

\* C10 (main.go, phase barrier): once ProcessRepository has returned, every
\* goroutine of phase 1 that was spawned, at any depth, has ended and the
\* mutex is free; and from the start of BuildComponentTree on the registry is
\* the one the nodes were made from (nothing wrote to it since).
C10_PhaseBarrier ==
    /\ mainpc \notin Phase1 =>
          /\ \A e \in Entries : gpc[e] \in {"idle", "done"}
          /\ componentsMutex = NoHolder
    /\ mainpc \in {"p2wait", "print", "done"} =>
          /\ DOMAIN componentNodes = DOMAIN createdComponents
          /\ \A n \in DOMAIN componentNodes :
                componentNodes[n].Component = createdComponents[n]

\* Phase 2 runs after the goroutine of the file two directories down has
\* registered its components.
C10_NestedGoroutineJoined ==
    /\ mainpc = "p2wait"
    /\ gpc[UiDir] = "done"
    /\ FileC \in hist.extracted
    /\ \E n \in DOMAIN createdComponents : createdComponents[n].Path = FileC

----------------------------------------------------------------------------
(* C11 *)

\* The size of a worker pool that is fixed, whatever the repository: the
\* repository of the model has more entries, and may register more
\* components, than the pool has workers.
PoolSize == 2

\* The goroutines of phase 1 and of phase 2 that have been started and have
\* not returned.
RunningGoroutines == {e \in Entries : gpc[e] \notin {"idle", "done"}}

RunningWorkers == {n \in Names : wpc[n] \notin {"idle", "done"}}

\* C11 (main.go, bounded concurrency): at every moment of phase 1 and of
\* phase 2 the number of worker tasks that are running is at most the size of
\* a fixed pool, which does not grow with the number of directory entries or
\* of registered components.
C11_WorkersWithinPool ==
    /\ Cardinality(RunningGoroutines) <= PoolSize
    /\ Cardinality(RunningWorkers) <= PoolSize

----------------------------------------------------------------------------
(* C12 *)

\* main.go: every root and every child is the node componentNodes holds for
\* its name, and no node is in rootComponents twice.
OneNodePerNameCLI ==
    Phase2Over =>
        /\ \A i, j \in 1..Len(rootComponents) :
              rootComponents[i] = rootComponents[j] => i = j
        /\ \A n \in RootSet \cup ChildrenOf(DOMAIN componentNodes) :
              n \in DOMAIN componentNodes /\ componentNodes[n].Component.Name = n

\* rgc.go: the nodes of the forest a request returned: its roots and their
\* children.
ForestNodes(r) ==
    LET roots == rresult[r].body.Used \o rresult[r].body.Unused
    IN  {roots[i] : i \in 1..Len(roots)}
        \cup UNION {{roots[i].Children[j] : j \in 1..Len(roots[i].Children)} :
                       i \in 1..Len(roots)}

\* rgc.go: in the forest returned by a request that began with empty globals
\* and was handled alone, two nodes of the same name are the same node.
OneNodePerNameSvc ==
    \A r \in Requests :
        (rpc[r] = "ok" /\ rstart[r].fresh /\ rstart[r].solo) =>
            \A x, y \in ForestNodes(r) :
                x.Component.Name = y.Component.Name => x = y

\* C12 (both programs, shared nodes): in the forest each registered name is
\* represented by exactly one node; a component referenced by several parents,
\* or referenced and also scanned as a definer, is the same node under each
\* parent and not a separate copy.
C12_OneNodePerName == OneNodePerNameCLI /\ OneNodePerNameSvc

----------------------------------------------------------------------------
(* C13 *)

\* Request r is inside the range loop of buildComponentTree with components
\* still to visit.
Iterating(r) == rpc[r] = "build" /\ rtodo[r] # {}

\* The step is processFile of request q assigning to createdComponents.
RegistryWrite(q) ==
    /\ rpc[q] = "walk"
    /\ rwork[q] # <<>>
    /\ Head(rwork[q]).Type = "file"
    /\ isComponent(Head(rwork[q]).Path)
    /\ rwork'[q] = Tail(rwork[q])

\* C13 (rgc.go, frozen registry): while buildComponentTree of any request is
\* iterating createdComponents, no processFile call of any request writes to
\* createdComponents.
C13_RegistryFrozenDuringBuild ==
    [][(\E r \in Requests : Iterating(r)) => ~(\E q \in Requests : RegistryWrite(q))]_vars

----------------------------------------------------------------------------
(* C14 *)

\* The names the file text of component m references with a tag.
TagsOf(m) ==
    LET tags == repo[componentNodes[m].Component.Path].tags
    IN  {tags[i] : i \in 1..Len(tags)}

\* Some other registered component's file text references n.
ReferencedByOther(n) == \E m \in DOMAIN componentNodes \ {n} : n \in TagsOf(m)

\* Every worker of phase 2 read its file.
AllFilesScanned == errChan[BuildLevel] = <<>>

\* C14 (main.go, root computation): after the workers of phase 2 have joined
\* and all of them read their files, the nodes appended to rootComponents are
\* exactly those that no other registered component's file text references
\* (a self-reference does not count), in every interleaving.
C14_RootsHaveNoIncomingEdge ==
    (Phase2Over /\ AllFilesScanned) =>
        RootSet = {n \in DOMAIN componentNodes : ~ReferencedByOther(n)}

----------------------------------------------------------------------------
(* C15 *)

\* main.go: the components whose worker failed to read the defining file.
FailedReads == {errChan[BuildLevel][i] : i \in 1..Len(errChan[BuildLevel])}

\* The tag matches of the file of component n that name a registered
\* component, in order of occurrence.
RegisteredTags(n) ==
    LET registered(x) == x \in DOMAIN componentNodes
    IN  SelectSeq(repo[componentNodes[n].Component.Path].tags, registered)

\* main.go: phase 2 returns nil whatever failed; a component whose read
\* failed is a node without children, every other node has the children its
\* file names, and the roots are the nodes no file that was read references.
DegradedReadCLI ==
    Phase2Over =>
        /\ \A n \in DOMAIN componentNodes :
              componentNodes[n].Children =
                  IF n \in FailedReads THEN <<>> ELSE RegisteredTags(n)
        /\ RootSet = {n \in DOMAIN componentNodes :
                         \A m \in DOMAIN componentNodes \ FailedReads : n \notin TagsOf(m)}

\* rgc.go: no request fails because the text of a component's file could not
\* be decoded.
DegradedReadSvc ==
    \A r \in Requests :
        ~(rpc[r] = "failed" /\ rresult[r] = Response(500, ErrDecode))

\* C15 (both programs, phase-2 read failure): when reading the defining file
\* of a component fails with an error that is not a cancellation, the phase
\* still succeeds, the component stays a node with no children that takes
\* part in the root computation, and the edges of the other components are
\* what they would be had the file been empty.
C15_ReadFailureDegradesOneComponent == DegradedReadCLI /\ DegradedReadSvc

----------------------------------------------------------------------------
(* C16 *)

\* C16 (main.go, edge deduplication): the Children of every node hold each
\* child at most once, however often the child's tag occurs in the file.
C16_ChildrenHaveNoDuplicates ==
    \A n \in DOMAIN componentNodes :
        \A i, j \in 1..Len(componentNodes[n].Children) :
            componentNodes[n].Children[i] = componentNodes[n].Children[j] => i = j

----------------------------------------------------------------------------
(* C17 *)

\* C17 (main.go, no self-edges): no node is in its own Children and no node
\* is its own Parent, also when its defining file holds a tag with its name.
C17_NoSelfEdges ==
    \A n \in DOMAIN componentNodes :
        /\ componentNodes[n].Parent # n
        /\ \A i \in 1..Len(componentNodes[n].Children) :
              componentNodes[n].Children[i] # n

----------------------------------------------------------------------------
(* C18 *)

\* The workers of phase 2 that assigned the Parent of node c: a worker
\* appends c to its own Children in the step in which it assigns c.Parent.
ParentWriters(c) ==
    {n \in DOMAIN componentNodes :
        \E i \in 1..Len(componentNodes[n].Children) : componentNodes[n].Children[i] = c}

\* C18 (main.go, single writer): no field of a node is written by two
\* different worker goroutines of phase 2, which run without an order between
\* them: the Parent of every node has at most one writer.
C18_ParentHasOneWriter ==
    \A c \in DOMAIN componentNodes : Cardinality(ParentWriters(c)) <= 1

----------------------------------------------------------------------------
(* C19 *)

\* The names the export rule finds in the text of file e.
ExportsOf(e) == {repo[e].exports[i] : i \in 1..Len(repo[e].exports)}

\* At most one goroutine is between Lock and Unlock of extractComponents, and
\* it holds componentsMutex.
OneInCriticalSection ==
    /\ \A e, f \in Files : (gpc[e] = "locked" /\ gpc[f] = "locked") => e = f
    /\ \A e \in Files : gpc[e] = "locked" => componentsMutex = e

\* createdComponents changes only in the step of the goroutine that holds the
\* mutex.
WriteUnderLock ==
    createdComponents' # createdComponents =>
        \E e \in Files : gpc[e] = "locked" /\ componentsMutex = e /\ gpc'[e] = "done"

\* The call of extractComponents for file e leaves every entry that existed
\* before it as it was, unless the export rule of the call names it.
FallbackKeepsEntries ==
    \A e \in Files :
        (gpc[e] = "locked" /\ gpc'[e] = "done") =>
            \A n \in DOMAIN createdComponents \ ExportsOf(e) :
                createdComponents'[n] = createdComponents[n]

\* C19 (main.go, registry writes): at every moment of phase 1 at most one
\* goroutine is inside the section of extractComponents that reads or writes
\* createdComponents, and within one call the fallback `function Name` rule
\* never replaces an entry that already exists for the name.
C19_RegistryWritesExclusive ==
    /\ []OneInCriticalSection
    /\ [][WriteUnderLock /\ FallbackKeepsEntries]_vars

\* A goroutine holds the mutex while another waits for it, and the text of
\* the holder's file has a `function Name` whose name another file registered.
C19_FallbackMeetsEntry ==
    \E e \in Files :
        /\ gpc[e] = "locked"
        /\ \E f \in Files \ {e} : gpc[f] = "extract"
        /\ \E i \in 1..Len(repo[e].funcs) :
              /\ repo[e].funcs[i] \in DOMAIN createdComponents \ ExportsOf(e)
              /\ createdComponents[repo[e].funcs[i]].Path # e

----------------------------------------------------------------------------
(* C20 *)

\* A worker that is at its send finds room in the buffer, no channel holds
\* more than its capacity, and no worker's error is in a channel twice.
NoBlockedSend ==
    /\ \A n \in Names : wpc[n] = "send" => CanSend(BuildLevel)
    /\ \A l \in Levels : Len(errChan[l]) <= errChanCap(l)
    /\ \A i, j \in 1..Len(errChan[BuildLevel]) :
          errChan[BuildLevel][i] = errChan[BuildLevel][j] => i = j

\* ProcessRepository has returned an error, or BuildComponentTree has
\* returned; no call of processDirectory is still waiting for its goroutines.
ForkJoinReturned ==
    /\ mainpc = "fatal" \/ Phase2Over
    /\ \A e \in Dirs : gpc[e] \in {"idle", "done"}

\* C20 (main.go, deadlock freedom): for every pattern of fetch failures
\* ProcessRepository, processDirectory and BuildComponentTree eventually
\* return, and no worker blocks sending on errChan before wg.Wait() completes:
\* each worker sends at most one error and the capacity of the channel is the
\* number of workers of the level.
C20_ForkJoinReturns ==
    /\ []NoBlockedSend
    /\ <>ForkJoinReturned

\* A worker of phase 2 is at its send while the channel already holds the
\* error of another worker and nothing receives yet.
C20_SendWithErrorQueued ==
    /\ mainpc = "p2wait"
    /\ errChan[BuildLevel] # <<>>
    /\ \E n \in Names : wpc[n] = "send"

====
